---- MODULE Spec2Model ----
(***************************************************************************)
(* Clone protocol of chirp/drivers/retevis_ha1g.py: CRC-16 checksum,       *)
(* packet codec, handshake, region download / upload and the session       *)
(* entry points do_download, do_upload and HA1G.sync_out.                  *)
(*                                                                         *)
(* Bytes are integers 0..255 and a bytes object is a sequence of them      *)
(* (index i of the source is index i+1 here).  An exception that           *)
(* propagates is a record [type, msg]; NoExc stands for "no exception".    *)
(***************************************************************************)
EXTENDS Integers, Sequences, FiniteSets, TLC

(***************************************************************************)
(* Python helpers                                                          *)
(***************************************************************************)

Min(a, b) == IF a <= b THEN a ELSE b

Max(a, b) == IF a >= b THEN a ELSE b

\* Python index normalisation of a slice bound i for an object of length n.
PyBound(i, n) == IF i < 0 THEN Max(i + n, 0) ELSE Min(i, n)

\* Python s[lo:hi] (0-based, bounds clipped, negative bounds from the end).
PySlice(s, lo, hi) ==
    LET a == PyBound(lo, Len(s))
        b == PyBound(hi, Len(s))
    IN  IF a >= b THEN << >> ELSE SubSeq(s, a + 1, b)

\* Python s[lo:]
PyFrom(s, lo) == PySlice(s, lo, Len(s))

\* Python b"\x00" * n
Zeros(n) == [i \in 1..Max(n, 0) |-> 0]

\* struct.pack("<H", x) of a value already in 0..65535
PackH(x) == << x % 256, x \div 256 >>

\* struct.unpack("<H", two bytes)
UnpackH(b) == b[1] + 256 * b[2]

\* a ^ b for n-bit operands
RECURSIVE BitXor(_, _, _)
BitXor(a, b, n) ==
    IF n = 0 THEN 0
    ELSE ((a + b) % 2) + 2 * BitXor(a \div 2, b \div 2, n - 1)

(***************************************************************************)
(* Checksum unit: calculate_crc16                                          *)
(***************************************************************************)

\* XorA001 with the polynomial 0x8408 instead: bit 15 gets set, bits 10 and
\* 3 are toggled.
Xor8408(x) ==
    x + 32768
      + (IF (x \div 1024) % 2 = 1 THEN -1024 ELSE 1024)
      + (IF (x \div 8) % 2 = 1 THEN -8 ELSE 8)

\* One pass of the inner loop body: shift right, xor 0xA001 when bit 0 was set.
\* x ^ 0xA001 for x < 2^15: bit 15 gets set, bits 13 and 0 are toggled.
XorA001(x) ==
    x + 32768
      + (IF (x \div 8192) % 2 = 1 THEN -8192 ELSE 8192)
      + (IF x % 2 = 1 THEN -1 ELSE 1)

CrcShift(crc) ==
    IF crc % 2 = 1 THEN XorA001(crc \div 2) ELSE crc \div 2

RECURSIVE CrcBits(_, _)
CrcBits(crc, n) == IF n = 0 THEN crc ELSE CrcBits(CrcShift(crc), n - 1)

\* The outer loop body for one byte b: crc ^= b, then eight shifts.
CrcByte(crc, b) ==
    CrcBits((crc \div 256) * 256 + BitXor(crc % 256, b, 8), 8)

\* The for loop over buf[lo..hi] (1-based, in order) started with register
\* crc; the range is halved to keep the evaluation shallow.
RECURSIVE CrcRegister(_, _, _, _)
CrcRegister(buf, crc, lo, hi) ==
    IF lo > hi THEN crc
    ELSE IF lo = hi THEN CrcByte(crc, buf[lo])
    ELSE LET mid  == (lo + hi) \div 2
             left == CrcRegister(buf, crc, lo, mid)
         IN  IF left >= 0 THEN CrcRegister(buf, left, mid + 1, hi) ELSE 0

calculate_crc16(buf) == PackH(CrcRegister(buf, 0, 1, Len(buf)))

(***************************************************************************)
(* Packet codec                                                            *)
(***************************************************************************)

\* b"RDTP\x01\x00\x00\x00\x00\x00\x00\x00"
Magic == << 82, 68, 84, 80, 1, 0, 0, 0, 0, 0, 0, 0 >>

Sentinel == 255

\* get_send_packet_bytes with packet_index and packet_count packed in the
\* other order.
get_send_packet_bytes_swapped(data_type, packet_index, data_code, packet_count, data_buffer) ==
    LET data_len  == Len(data_buffer)
        data_part == Magic \o PackH(data_len + 6)
                       \o << data_type % 256, data_code % 256 >>
                       \o PackH(packet_count % 65536)
                       \o PackH(packet_index % 65536)
                       \o data_buffer
    IN  data_part \o calculate_crc16(data_part) \o << Sentinel >>

\* get_send_packet_bytes packing direction code 0 whatever data_code is.
get_send_packet_bytes_dir0(data_type, packet_index, data_code, packet_count, data_buffer) ==
    LET data_len  == Len(data_buffer)
        data_part == Magic \o PackH(data_len + 6)
                       \o << data_type % 256, 0 >>
                       \o PackH(packet_index % 65536)
                       \o PackH(packet_count % 65536)
                       \o data_buffer
    IN  data_part \o calculate_crc16(data_part) \o << Sentinel >>

get_send_packet_bytes(data_type, packet_index, data_code, packet_count, data_buffer) ==
    LET data_len  == Len(data_buffer)
        data_part == Magic \o PackH(data_len + 6)
                       \o << data_type % 256, data_code % 256 >>
                       \o PackH(packet_index % 65536)
                       \o PackH(packet_count % 65536)
                       \o data_buffer
    IN  data_part \o calculate_crc16(data_part) \o << Sentinel >>

\* Default of validate_packet's chunk_size parameter; no caller passes another.
DefaultChunkSize == 1024

\* validate_packet with the result of the length test inverted.
validate_packet_short_ok(current_packet_Byte) ==
    LET byteLen      == Len(current_packet_Byte)
        packet_count == IF DefaultChunkSize > 255 THEN 256 ELSE DefaultChunkSize + 1
    IN  IF byteLen <= 13 THEN TRUE
        ELSE
          LET b12      == current_packet_Byte[13]
              b13      == current_packet_Byte[14]
              data_len == (IF b12 > 6 THEN b12 - 6 ELSE 0) + b13 * packet_count
          IN  IF byteLen - 17 < data_len THEN FALSE
              ELSE PySlice(current_packet_Byte, -3, -1)
                     = calculate_crc16(PySlice(current_packet_Byte, 0, -3))

\* validate_packet with a fixed overhead of 14 bytes instead of 17.
validate_packet_overhead_14(current_packet_Byte) ==
    LET byteLen      == Len(current_packet_Byte)
        packet_count == IF DefaultChunkSize > 255 THEN 256 ELSE DefaultChunkSize + 1
    IN  IF byteLen <= 13 THEN FALSE
        ELSE
          LET b12      == current_packet_Byte[13]
              b13      == current_packet_Byte[14]
              data_len == (IF b12 > 6 THEN b12 - 6 ELSE 0) + b13 * packet_count
          IN  IF byteLen - 14 < data_len THEN FALSE
              ELSE PySlice(current_packet_Byte, -3, -1)
                     = calculate_crc16(PySlice(current_packet_Byte, 0, -3))

\* validate_packet without the comparison of the checksum.
validate_packet_no_crc(current_packet_Byte) ==
    LET byteLen      == Len(current_packet_Byte)
        packet_count == IF DefaultChunkSize > 255 THEN 256 ELSE DefaultChunkSize + 1
    IN  IF byteLen <= 13 THEN FALSE
        ELSE
          LET b12      == current_packet_Byte[13]
              b13      == current_packet_Byte[14]
              data_len == (IF b12 > 6 THEN b12 - 6 ELSE 0) + b13 * packet_count
          IN  IF byteLen - 17 < data_len THEN FALSE
              ELSE TRUE

\* validate_packet(current_packet_Byte, chunk_size=1024): a bytes index out of
\* range would be an IndexError; here it would stop the evaluation.
\* validate_packet asking for the sentinel 0xFF as the last byte as well.
validate_packet_checks_sentinel(current_packet_Byte) ==
    LET byteLen      == Len(current_packet_Byte)
        packet_count == IF DefaultChunkSize > 255 THEN 256 ELSE DefaultChunkSize + 1
    IN  IF byteLen <= 13 THEN FALSE
        ELSE
          LET b12      == current_packet_Byte[13]
              b13      == current_packet_Byte[14]
              data_len == (IF b12 > 6 THEN b12 - 6 ELSE 0) + b13 * packet_count
          IN  IF byteLen - 17 < data_len THEN FALSE
              ELSE /\ PySlice(current_packet_Byte, -3, -1)
                        = calculate_crc16(PySlice(current_packet_Byte, 0, -3))
                   /\ current_packet_Byte[byteLen] = Sentinel

validate_packet(current_packet_Byte) ==
    LET byteLen      == Len(current_packet_Byte)
        packet_count == IF DefaultChunkSize > 255 THEN 256 ELSE DefaultChunkSize + 1
    IN  IF byteLen <= 13 THEN FALSE
        ELSE
          LET b12      == current_packet_Byte[13]
              b13      == current_packet_Byte[14]
              data_len == (IF b12 > 6 THEN b12 - 6 ELSE 0) + b13 * packet_count
          IN  IF byteLen - 17 < data_len THEN FALSE
              ELSE PySlice(current_packet_Byte, -3, -1)
                     = calculate_crc16(PySlice(current_packet_Byte, 0, -3))

(***************************************************************************)
(* Radio configuration (class HA1G) and the region catalogue               *)
(*                                                                         *)
(* The catalogue keeps the source's region ids, their order and their      *)
(* layout (regions 2..12 contiguous, a gap before region 13, a gap before  *)
(* region 15, unused bytes after it); offsets and lengths are scaled down  *)
(* together with the write page, so that regions of less than one page,    *)
(* exactly one page and several pages all occur.                           *)
(***************************************************************************)

\* "HA1G"
MODEL == << 72, 65, 49, 71 >>

\* Bytes of a write page (write_page_len, scaled).
PageLen == 2

\* Unused bytes of the image after the last region (scaled).
ImageSlack == 3

write_page_len == PageLen

read_packet_len == 1047

memsize == 31 + ImageSlack

\* class MemoryRegions, in definition order (the order of iteration).
MemoryRegions == << 2, 3, 4, 6, 7, 8, 11, 12, 13, 15 >>

radioHead == 2
radioInfo == 3
radioVer  == 4
zoneData  == 7

RegionIds == { MemoryRegions[i] : i \in 1..Len(MemoryRegions) }

\* item |-> <<start, length>>
MEMORY_REGIONS_RANGES ==
    [ item \in RegionIds |->
        CASE item = 2  -> << 0, 2 >>
          [] item = 3  -> << 2, 3 >>
          [] item = 4  -> << 5, 1 >>
          [] item = 6  -> << 6, 2 >>
          [] item = 7  -> << 8, 4 >>
          [] item = 8  -> << 12, 5 >>
          [] item = 11 -> << 17, 4 >>
          [] item = 12 -> << 21, 2 >>
          [] item = 13 -> << 24, 2 >>
          [] item = 15 -> << 28, 3 >> ]

\* class HandshakeStatuses
Normal     == "Normal"
Wrong      == "Wrong"
PwdWrong   == "PwdWrong"
RadioWrong == "RadioWrong"

(***************************************************************************)
(* Exceptions                                                              *)
(***************************************************************************)

NoExc == [type |-> "none", msg |-> ""]

RadioError(m) == [type |-> "RadioError", msg |-> m]

\* Any exception that is not a RadioError (IndexError, struct.error,
\* ValueError, an error of the serial port).
OtherError(t) == [type |-> t, msg |-> ""]

MsgModelMismatch == "Radio model mismatch"
MsgPassword      == "Radio is password protected"
MsgUnknown       == "Unknown error communicating with radio"
MsgReported      == "radio reported failure"
MsgExitRefused   == "Radio refused to exit programming mode"
MsgSyncOut       == "Unexpected error communicating with the radio"

(***************************************************************************)
(* Handshake packet and classification of the answer                       *)
(***************************************************************************)

\* get_handshake_bytes declaring the length of the whole packet.
get_handshake_bytes_total_len(currentModel) ==
    LET model_bytes == currentModel
        prefix      == << 0, 0, 0, 0, 1, 0 >>
        padding_len == 41 - Len(model_bytes)
        padding     == Zeros(padding_len)
        data_len    == Len(prefix) + Len(model_bytes) + padding_len
        packet      == Magic \o PackH(data_len + 17) \o prefix \o model_bytes \o padding
    IN  packet \o calculate_crc16(packet) \o << Sentinel >>

get_handshake_bytes(currentModel) ==
    LET model_bytes == currentModel
        prefix      == << 0, 0, 0, 0, 1, 0 >>
        padding_len == 41 - Len(model_bytes)
        padding     == Zeros(padding_len)
        data_len    == Len(prefix) + Len(model_bytes) + padding_len
        packet      == Magic \o PackH(data_len) \o prefix \o model_bytes \o padding
    IN  packet \o calculate_crc16(packet) \o << Sentinel >>

\* handshake_handle_connect_event without the test of byte 20.
handshake_handle_connect_event_no_pwd(dataByte) ==
    IF PySlice(dataByte, 14, 16) = << 0, 1 >>
    THEN IF Len(dataByte) <= 20 THEN "IndexError"
         ELSE IF PySlice(dataByte, 20, 20 + Len(MODEL)) = MODEL
              THEN Normal
              ELSE RadioWrong
    ELSE Wrong

\* handshake_handle_connect_event: a HandshakeStatuses member, or "IndexError"
\* when dataByte[20] does not exist.
handshake_handle_connect_event(dataByte) ==
    IF PySlice(dataByte, 14, 16) = << 0, 1 >>
    THEN IF Len(dataByte) <= 20 THEN "IndexError"
         ELSE IF dataByte[21] # 1
              THEN IF PySlice(dataByte, 20, 20 + Len(MODEL)) = MODEL
                   THEN Normal
                   ELSE RadioWrong
              ELSE PwdWrong
    ELSE Wrong

\* error_map.get(handshake_result, "Unknown error communicating with radio")
error_map(handshake_result) ==
    CASE handshake_result = RadioWrong -> MsgModelMismatch
      [] handshake_result = PwdWrong   -> MsgPassword
      [] OTHER                         -> MsgUnknown

(***************************************************************************)
(* The radio at the other end of the serial line (environment)             *)
(***************************************************************************)

\* Bytes of payload the radio puts in one read answer.
DevChunk == 3

\* Region exchanges of one session the radio may answer abnormally.
MaxFaults == 1

\* A well-formed answer: the wire layout with a correct checksum.
DevicePacket(b14, b15, index, count, payload) ==
    LET body == Magic \o PackH(Len(payload) + 6) \o << b14, b15 >>
                  \o PackH(index) \o PackH(count) \o payload
    IN  body \o calculate_crc16(body) \o << Sentinel >>

\* Any bytes followed by their correct checksum and the sentinel.
Checksummed(body) == body \o calculate_crc16(body) \o << Sentinel >>

\* p with the lowest bit of its first checksum byte flipped.
BadChecksum(p) == [p EXCEPT ![Len(p) - 2] = BitXor(@, 1, 8)]

\* The payload field of the wire layout: bytes 20 up to the 3-byte trailer.
DevicePayload(p) == PySlice(p, 20, -3)

\* What the radio holds at image offset i: never zero.
DeviceMem(i) == 16 + i

DeviceRegion(item) ==
    LET r == MEMORY_REGIONS_RANGES[item]
    IN  [i \in 1..r[2] |-> DeviceMem(r[1] + i - 1)]

DeviceCount(item) ==
    (MEMORY_REGIONS_RANGES[item][2] + DevChunk - 1) \div DevChunk

DeviceChunk(item, k) ==
    PySlice(DeviceRegion(item), k * DevChunk, (k + 1) * DevChunk)

\* "HA1UV", the other model of the family.
OtherModel == << 72, 65, 49, 85, 86 >>

\* Answers to the handshake that pass validate_packet ...
HandshakeValidReplies ==
    { DevicePacket(0, 1, 0, 0, MODEL \o << 32 >>),
      DevicePacket(0, 1, 0, 0, << 1 >> \o MODEL),
      DevicePacket(0, 1, 0, 0, OtherModel),
      DevicePacket(0, 1, 0, 0, << >>),
      DevicePacket(0, 0, 0, 0, MODEL \o << 32 >>),
      Checksummed(Magic \o << 0, 0, 0, 1, 0 >>) }

\* ... and answers that do not: a wrong checksum, nothing, a fragment.
HandshakeInvalidReplies ==
    { BadChecksum(p) : p \in HandshakeValidReplies } \cup { << >>, Magic }

HandshakeReplies == HandshakeValidReplies \cup HandshakeInvalidReplies

\* The regular answer to the read request for packet k of a region.
NominalRead(item, k) ==
    DevicePacket(item, 2, k, DeviceCount(item), DeviceChunk(item, k))

\* Abnormal answers to that request.
FaultyReads(item, k) ==
    { << >>,
      BadChecksum(NominalRead(item, k)),
      DevicePacket((item + 1) % 256, 2, k, DeviceCount(item), DeviceChunk(item, k)),
      DevicePacket(item, 2, k, 0, DeviceChunk(item, k)),
      DevicePacket(item, 2, k, DeviceCount(item) + 1, DeviceChunk(item, k)),
      DevicePacket(item, 2, k, DeviceCount(item), DeviceChunk(item, k) \o << 238, 239 >>),
      DevicePacket(item, 2, k, DeviceCount(item), << >>),
      DevicePacket(item, 2, k, DeviceCount(item), PySlice(DeviceChunk(item, k), 0, 1)),
      Checksummed(Magic \o << 0, 0, item >>) }

MaxRegionLen ==
    CHOOSE n \in { MEMORY_REGIONS_RANGES[r][2] : r \in RegionIds } :
        \A r \in RegionIds : MEMORY_REGIONS_RANGES[r][2] <= n

\* The largest packet count the radio ever advertises.
MaxDeviceCount == 1 + (MaxRegionLen + DevChunk - 1) \div DevChunk

ReadReplies ==
    [ item \in RegionIds, k \in 0..MaxDeviceCount |->
        [ nominal |-> NominalRead(item, k), faulty |-> FaultyReads(item, k) ] ]

\* The regular answer to a write packet, and abnormal ones.
NominalAck(item, i, count) == DevicePacket(item, 0, i, count, << >>)

FaultyAcks(item, i, count) ==
    { << >>,
      BadChecksum(NominalAck(item, i, count)),
      DevicePacket((item + 1) % 256, 0, i, count, << >>) }

\* Images handed to the upload: a complete one and one cut short.
FullImage == [i \in 1..memsize |-> 100 + i]

UploadImages == { FullImage, SubSeq(FullImage, 1, 20) }

(***************************************************************************)
(* State of one clone session                                              *)
(***************************************************************************)

VARIABLES
    entry,            \* the entry point called: "do_download" or "sync_out"
    pc,               \* position in the code
    num,              \* handshake: iterations of the loop done
    flag,             \* handshake: flag of the last exchange_block_with_radio
    databytes,        \* handshake: bytes of the last exchange
    handshake_result, \* value returned by handshake(), "none" before
    all_bytes,        \* read_items: the image being assembled
    mmap,             \* write_items: self.get_mmap(), the image to upload
    item_pos,         \* position in MemoryRegions of the region in progress
    packet_index,     \* packet in progress (packet_index, resp. i)
    packet_count,     \* get_read_current_packet_bytes: packet_count
    item_bytes,       \* get_read_current_packet_bytes: item_bytes
    new_data_bytes,   \* region transfer: bytes of the last exchange
    exc,              \* exception leaving the try body (NoExc: it returned)
    outcome,          \* what do_download / do_upload gave its caller
    sync_outcome,     \* what sync_out gave its caller
    wire,             \* calls made on the serial port, in order
    faults,           \* abnormal region exchanges so far
    region_status,    \* per region: "none", "ok" (returned) or "failed" (raised)
    region_recv,      \* per region: payload bytes the radio sent for it
    region_first,     \* per region: bytes [18:20] of its first accepted answer
    vpc,              \* validate_packet called alone: "call", then "done"
    vinput,           \* ... its argument
    vresult,          \* ... its result
    upc,              \* a codec function called alone: which, and whether done
    uargs,            \* ... its arguments
    uresult,          \* ... its result
    zone,             \* bank model: chnum and chindex of the bank's zone
    bank_call,        \* ... the last call of the bank model and how it ended
    bank_calls        \* ... number of calls made

vars == << entry, pc, num, flag, databytes, handshake_result, all_bytes, mmap,
           item_pos, packet_index, packet_count, item_bytes, new_data_bytes,
           exc, outcome, sync_outcome, wire, faults, region_status,
           region_recv, region_first, vpc, vinput, vresult,
                    upc, uargs, uresult, zone, bank_call, bank_calls >>

\* range(15) of handshake()
HandshakeAttempts == 15

\* The bank model is not in use.
NoZone == [chnum |-> 0, chindex |-> << >>]

NoCall == [op |-> "none", number |-> 0, freq |-> 0, raised |-> "none"]

Pending     == [kind |-> "pending", exc |-> NoExc]
Returned    == [kind |-> "return", exc |-> NoExc]
Raised(e)   == [kind |-> "raise", exc |-> e]

\* serial.write(b) and serial.read(n) calls; raised: the call raised.
WriteEv(b)      == [op |-> "write", data |-> b, raised |-> FALSE]
WriteFailed(b)  == [op |-> "write", data |-> b, raised |-> TRUE]
ReadEv          == [op |-> "read", data |-> << >>, raised |-> FALSE]
ReadFailed      == [op |-> "read", data |-> << >>, raised |-> TRUE]

\* serial.read(chunk_size): at most chunk_size of the bytes on the line.
SerialRead(resp, chunk_size) == PySlice(resp, 0, chunk_size)

Init ==
    /\ entry \in { "do_download", "sync_out" }
    /\ mmap \in (IF entry = "sync_out" THEN UploadImages ELSE { << >> })
    /\ pc = "handshake"
    /\ num = 0
    /\ flag = FALSE
    /\ databytes = << >>
    /\ handshake_result = "none"
    /\ all_bytes = << >>
    /\ item_pos = 0
    /\ packet_index = 0
    /\ packet_count = 1
    /\ item_bytes = << >>
    /\ new_data_bytes = << >>
    /\ exc = NoExc
    /\ outcome = Pending
    /\ sync_outcome = Pending
    /\ wire = << >>
    /\ faults = 0
    /\ region_status = [r \in RegionIds |-> "none"]
    /\ region_recv = [r \in RegionIds |-> << >>]
    /\ region_first = [r \in RegionIds |-> << >>]
    /\ vpc = "idle"
    /\ vinput = << >>
    /\ vresult = FALSE
    /\ upc = "idle"
    /\ uargs = << >>
    /\ uresult = << >>
    /\ zone = NoZone
    /\ bank_call = NoCall
    /\ bank_calls = 0

(***************************************************************************)
(* do_download / do_upload: the except clauses and the way into finally    *)
(***************************************************************************)

\* except errors.RadioError: raise / except Exception: raise RadioError(...)
except_clauses(e) ==
    IF e.type = "RadioError" THEN e ELSE RadioError(MsgUnknown)

\* BodyRaises without a finally clause: exit_programming_mode is skipped.
BodyRaisesNoFinally(e) ==
    /\ exc' = except_clauses(e)
    /\ pc' = IF entry = "sync_out" THEN "sync_out" ELSE "done"

\* The try body ends by raising e.
BodyRaises(e) ==
    /\ exc' = except_clauses(e)
    /\ pc' = "finally"

\* The try body ends by returning.
BodyReturns ==
    /\ exc' = NoExc
    /\ pc' = "finally"

(***************************************************************************)
(* handshake                                                               *)
(***************************************************************************)

\* handshake_loop_ends without the break.
handshake_loop_never_breaks(ok, done) == done = HandshakeAttempts

\* handshake() whose loop neither breaks nor runs out of attempts.
handshake_loop_never_ends(ok, done) == FALSE

\* The loop of handshake() ends: "if flag: break", or range(15) is used up
\* (done: iterations done).
handshake_loop_ends(ok, done) == ok \/ done = HandshakeAttempts

\* One iteration of the loop of handshake(): exchange_block_with_radio with
\* the handshake packet, then break on a validated answer.
HandshakeExchange ==
    /\ pc = "handshake"
    /\ num < HandshakeAttempts
    /\ LET send_byte == get_handshake_bytes(MODEL \o << 32 >>)
       IN  \/ \* serial.write raises
              /\ wire' = Append(wire, WriteFailed(send_byte))
              /\ BodyRaises(OtherError("SerialException"))
              /\ UNCHANGED << num, flag, databytes >>
           \/ \* serial.read raises
              /\ wire' = wire \o << WriteEv(send_byte), ReadFailed >>
              /\ BodyRaises(OtherError("SerialException"))
              /\ UNCHANGED << num, flag, databytes >>
           \/ \E resp \in HandshakeReplies :
                LET new_bytes == SerialRead(resp, read_packet_len)
                    ok        == validate_packet(new_bytes)
                IN  /\ wire' = wire \o << WriteEv(send_byte), ReadEv >>
                    /\ num' = num + 1
                    /\ flag' = ok
                    /\ databytes' = new_bytes
                    /\ pc' = IF handshake_loop_ends(ok, num + 1)
                             THEN "classify" ELSE "handshake"
                    /\ exc' = exc
    /\ UNCHANGED << entry, handshake_result, all_bytes, mmap, item_pos,
                    packet_index, packet_count, item_bytes, new_data_bytes,
                    outcome, sync_outcome, faults, region_status, region_recv, region_first,
                    vpc, vinput, vresult,
                    upc, uargs, uresult,
                    zone, bank_call, bank_calls >>

\* The radio answers abnormally during the region transfer only in sessions
\* whose handshake was answered at once, and at most MaxFaults times.
FaultAllowed == faults < MaxFaults /\ num = 1

\* class MemoryRegions members write_items skips.
SkipList == { radioHead, radioInfo, radioVer, zoneData }

\* NextWritable skipping nothing.
NextWritableAll(pos) == pos

\* The next position at or after pos that write_items does not skip.
RECURSIVE NextWritable(_)
NextWritable(pos) ==
    IF pos > Len(MemoryRegions) THEN pos
    ELSE IF MemoryRegions[pos] \in SkipList THEN NextWritable(pos + 1)
    ELSE pos

\* After the loop of handshake(): classify the last answer, then lines
\* 481-485 / 501-505 of do_download / do_upload.
HandshakeReturn ==
    /\ pc = "classify"
    /\ LET r == handshake_handle_connect_event(databytes)
       IN  /\ handshake_result' = r
           /\ IF r = "IndexError"
              THEN /\ BodyRaises(OtherError("IndexError"))
                   /\ UNCHANGED << all_bytes, item_pos >>
              ELSE IF r = Normal
              THEN /\ pc' = IF entry = "do_download" THEN "read_items"
                                                     ELSE "write_items"
                   /\ all_bytes' = IF entry = "do_download" THEN Zeros(memsize)
                                                            ELSE all_bytes
                   /\ item_pos' = IF entry = "do_download" THEN 1
                                                           ELSE NextWritable(1)
                   /\ exc' = exc
              ELSE /\ BodyRaises(RadioError(error_map(r)))
                   /\ UNCHANGED << all_bytes, item_pos >>
    /\ UNCHANGED << entry, num, flag, databytes, mmap, packet_index,
                    packet_count, item_bytes, new_data_bytes, outcome,
                    sync_outcome, wire, faults, region_status, region_recv, region_first,
                    vpc, vinput, vresult,
                    upc, uargs, uresult,
                    zone, bank_call, bank_calls >>

(***************************************************************************)
(* Download: read_items, get_read_current_packet_bytes                     *)
(***************************************************************************)

\* Python a[lo:hi] = repl on a bytearray.
PySliceAssign(a, lo, hi, repl) ==
    LET b1 == PyBound(lo, Len(a))
        b2 == Max(PyBound(hi, Len(a)), b1)
    IN  PySlice(a, 0, b1) \o repl \o PyFrom(a, b2)

\* read_item_handle_connect_event without the min(): all of item_bytes is
\* stored.
read_item_handle_connect_event_no_min(image, bytes, item) ==
    IF item \notin DOMAIN MEMORY_REGIONS_RANGES THEN image
    ELSE LET start    == MEMORY_REGIONS_RANGES[item][1]
             item_len == Len(bytes)
         IN  PySliceAssign(image, start, start + item_len,
                           PySlice(bytes, 0, item_len))

\* read_item_handle_connect_event replacing the whole region by item_bytes:
\* all_bytes[start:start + length] = item_bytes[:length].
read_item_handle_connect_event_whole_region(image, bytes, item) ==
    IF item \notin DOMAIN MEMORY_REGIONS_RANGES THEN image
    ELSE LET start    == MEMORY_REGIONS_RANGES[item][1]
             length   == MEMORY_REGIONS_RANGES[item][2]
         IN  PySliceAssign(image, start, start + length,
                           PySlice(bytes, 0, length))

read_item_handle_connect_event(image, bytes, item) ==
    IF item \notin DOMAIN MEMORY_REGIONS_RANGES THEN image
    ELSE LET start    == MEMORY_REGIONS_RANGES[item][1]
             length   == MEMORY_REGIONS_RANGES[item][2]
             item_len == Min(Len(bytes), length)
         IN  PySliceAssign(image, start, start + item_len,
                           PySlice(bytes, 0, item_len))

\* read_items goes on with the next member of MemoryRegions, or returns.
NextItem ==
    /\ item_pos' = item_pos + 1
    /\ packet_index' = 0
    /\ packet_count' = 1
    /\ item_bytes' = << >>
    /\ IF item_pos = Len(MemoryRegions)
       THEN BodyReturns
       ELSE pc' = pc /\ exc' = exc

\* ItemFails without the try / except of read_items: the error leaves it.
ItemFailsAborts(item) ==
    /\ region_status' = [region_status EXCEPT ![item] = "failed"]
    /\ all_bytes' = all_bytes
    /\ UNCHANGED << item_pos, packet_index, packet_count, item_bytes >>
    /\ BodyRaises(RadioError(MsgReported))

\* ItemFails storing what the region had received before it failed.
ItemFailsKeepsPartial(item) ==
    /\ region_status' = [region_status EXCEPT ![item] = "failed"]
    /\ all_bytes' = IF item_bytes # << >>
                    THEN read_item_handle_connect_event(all_bytes, item_bytes, item)
                    ELSE all_bytes
    /\ NextItem

\* get_read_current_packet_bytes raised: the except clause of read_items.
ItemFails(item) ==
    /\ region_status' = [region_status EXCEPT ![item] = "failed"]
    /\ all_bytes' = all_bytes
    /\ NextItem

\* get_read_current_packet_bytes returned bytes: lines 537-539.
ItemReturns(item, bytes) ==
    /\ region_status' = [region_status EXCEPT ![item] = "ok"]
    /\ all_bytes' = IF bytes # << >>
                    THEN read_item_handle_connect_event(all_bytes, bytes, item)
                    ELSE all_bytes
    /\ NextItem

\* radio_reported_failure without the comparison of the echoed region id.
radio_reported_failure_no_echo(ok, reply, item) == ~ok

\* The test after each region exchange (lines 652-653 and 680-681).
radio_reported_failure(ok, reply, item) ==
    \/ ~ok
    \/ Len(reply) > 14 /\ reply[15] # item

\* read_loop_continues letting the loop run once more.
read_loop_continues_once_more(index, count) == index <= count

\* while packet_index < packet_count
read_loop_continues(index, count) == index < count

\* One iteration of the while loop of get_read_current_packet_bytes for the
\* region in progress, with what read_items does when the call ends.
ReadExchange ==
    /\ pc = "read_items"
    /\ LET item    == MemoryRegions[item_pos]
           request == get_send_packet_bytes(item, 0, 2, 1, PackH(packet_index))
       IN  \/ \* serial.write raises
              /\ FaultAllowed
              /\ wire' = Append(wire, WriteFailed(request))
              /\ faults' = faults + 1
              /\ UNCHANGED << region_recv, region_first, new_data_bytes >>
              /\ ItemFails(item)
           \/ \* serial.read raises
              /\ FaultAllowed
              /\ wire' = wire \o << WriteEv(request), ReadFailed >>
              /\ faults' = faults + 1
              /\ UNCHANGED << region_recv, region_first, new_data_bytes >>
              /\ ItemFails(item)
           \/ \E resp \in { ReadReplies[item, packet_index].nominal }
                            \cup (IF FaultAllowed
                                  THEN ReadReplies[item, packet_index].faulty
                                  ELSE { }) :
                LET reply          == SerialRead(resp, read_packet_len)
                    ok             == validate_packet(reply)
                    count_bytes    == PySlice(reply, 18, 20)
                    unpack_error   == packet_index = 0 /\ Len(count_bytes) # 2
                    new_count      == IF packet_index = 0
                                      THEN UnpackH(count_bytes)
                                      ELSE packet_count
                    new_item_bytes == item_bytes \o PySlice(reply, 20, -3)
                IN  /\ wire' = wire \o << WriteEv(request), ReadEv >>
                    /\ new_data_bytes' = reply
                    /\ faults' = IF resp = ReadReplies[item, packet_index].nominal
                                 THEN faults ELSE faults + 1
                    /\ IF radio_reported_failure(ok, reply, item) \/ unpack_error
                       THEN /\ region_recv' = region_recv
                            /\ region_first' = region_first
                            /\ ItemFails(item)
                       ELSE /\ region_recv' =
                                 [region_recv EXCEPT
                                    ![item] = @ \o DevicePayload(resp)]
                            /\ region_first' =
                                 IF packet_index = 0
                                 THEN [region_first EXCEPT ![item] = count_bytes]
                                 ELSE region_first
                            /\ IF read_loop_continues(packet_index + 1, new_count)
                               THEN /\ packet_index' = packet_index + 1
                                    /\ packet_count' = new_count
                                    /\ item_bytes' = new_item_bytes
                                    /\ UNCHANGED << all_bytes, item_pos, pc,
                                                    exc, region_status >>
                               ELSE ItemReturns(item, new_item_bytes)
    /\ UNCHANGED << entry, num, flag, databytes, handshake_result, mmap,
                    outcome, sync_outcome, vpc, vinput, vresult,
                    upc, uargs, uresult,
                    zone, bank_call, bank_calls >>

(***************************************************************************)
(* Upload: write_items, write_item_current_page_bytes                      *)
(***************************************************************************)

get_write_item_bytes(image, item) ==
    IF item \notin DOMAIN MEMORY_REGIONS_RANGES THEN << >>
    ELSE LET start  == MEMORY_REGIONS_RANGES[item][1]
             length == MEMORY_REGIONS_RANGES[item][2]
         IN  PySlice(image, start, start + length)

\* Ceil rounding down instead.
Floor(n, d) == n \div d

\* math.ceil(n / d) for n >= 0, d > 0
Ceil(n, d) == (n + d - 1) \div d

\* The write packet for page i of a region.
WritePacket(item, item_Bytes, i) ==
    LET packet_len   == write_page_len
        page_count   == Ceil(Len(item_Bytes), packet_len)
    IN  get_send_packet_bytes(item, i, 0, page_count,
                              PySlice(item_Bytes, i * packet_len,
                                      (i + 1) * packet_len))

\* write_item_current_page_bytes is called with an empty slice: line 667.
WriteItemEmpty ==
    /\ pc = "write_items"
    /\ get_write_item_bytes(mmap, MemoryRegions[item_pos]) = << >>
    /\ BodyRaises(OtherError("ValueError"))
    /\ UNCHANGED << entry, num, flag, databytes, handshake_result, all_bytes,
                    mmap, item_pos, packet_index, packet_count, item_bytes,
                    new_data_bytes, outcome, sync_outcome, wire, faults,
                    region_status, region_recv, region_first, vpc, vinput, vresult,
                    upc, uargs, uresult,
                    zone, bank_call, bank_calls >>

\* write_items goes on with the next region it does not skip, or returns.
NextWriteItem ==
    /\ item_pos' = NextWritable(item_pos + 1)
    /\ packet_index' = 0
    /\ IF NextWritable(item_pos + 1) > Len(MemoryRegions)
       THEN BodyReturns
       ELSE pc' = pc /\ exc' = exc

\* One iteration of the for loop of write_item_current_page_bytes for the
\* region in progress.
WriteExchange ==
    /\ pc = "write_items"
    /\ LET item         == MemoryRegions[item_pos]
           item_Bytes   == get_write_item_bytes(mmap, item)
           page_count   == Ceil(Len(item_Bytes), write_page_len)
           i            == packet_index
           current_packet_bytes == WritePacket(item, item_Bytes, i)
       IN  /\ item_Bytes # << >>
           /\ \/ \* serial.write raises
                 /\ FaultAllowed
                 /\ wire' = Append(wire, WriteFailed(current_packet_bytes))
                 /\ faults' = faults + 1
                 /\ BodyRaises(OtherError("SerialException"))
                 /\ UNCHANGED << item_pos, packet_index, new_data_bytes >>
              \/ \* serial.read raises
                 /\ FaultAllowed
                 /\ wire' = wire \o << WriteEv(current_packet_bytes), ReadFailed >>
                 /\ faults' = faults + 1
                 /\ BodyRaises(OtherError("SerialException"))
                 /\ UNCHANGED << item_pos, packet_index, new_data_bytes >>
              \/ \E resp \in { NominalAck(item, i, page_count) }
                               \cup (IF FaultAllowed
                                     THEN FaultyAcks(item, i, page_count)
                                     ELSE { }) :
                   LET reply == SerialRead(resp, read_packet_len)
                       ok    == validate_packet(reply)
                   IN  /\ wire' = wire \o << WriteEv(current_packet_bytes), ReadEv >>
                       /\ new_data_bytes' = reply
                       /\ faults' = IF resp = NominalAck(item, i, page_count)
                                    THEN faults ELSE faults + 1
                       /\ IF radio_reported_failure(ok, reply, item)
                          THEN /\ BodyRaises(RadioError(MsgReported))
                               /\ UNCHANGED << item_pos, packet_index >>
                          ELSE IF i + 1 < page_count
                          THEN /\ packet_index' = i + 1
                               /\ UNCHANGED << item_pos, pc, exc >>
                          ELSE NextWriteItem
    /\ UNCHANGED << entry, num, flag, databytes, handshake_result, all_bytes,
                    mmap, packet_count, item_bytes, outcome, sync_outcome,
                    region_status, region_recv, region_first, vpc, vinput, vresult,
                    upc, uargs, uresult,
                    zone, bank_call, bank_calls >>

(***************************************************************************)
(* finally: exit_programming_mode, and the caller sync_out                 *)
(***************************************************************************)

\* The packet that tells the radio to leave programming mode and reboot.
ExitPacket == get_send_packet_bytes(111, 0, 0, 1, << 0 >>)

\* What leaves do_download / do_upload when the finally clause ran with the
\* exception e of the try body pending (NoExc: a return pending), and
\* exit_programming_mode raised (write_raised) or returned.
finally_outcome(e, write_raised) ==
    IF write_raised THEN Raised(RadioError(MsgExitRefused))
    ELSE IF e = NoExc THEN Returned
    ELSE Raised(e)

\* ExitProgrammingMode waiting for an answer to the exit packet.
ExitProgrammingModeReads ==
    /\ pc = "finally"
    /\ \/ /\ wire' = wire \o << WriteEv(ExitPacket), ReadEv >>
          /\ outcome' = finally_outcome(exc, FALSE)
       \/ /\ wire' = Append(wire, WriteFailed(ExitPacket))
          /\ outcome' = finally_outcome(exc, TRUE)
    /\ pc' = IF entry = "sync_out" THEN "sync_out" ELSE "done"
    /\ UNCHANGED << entry, num, flag, databytes, handshake_result, all_bytes,
                    mmap, item_pos, packet_index, packet_count, item_bytes,
                    new_data_bytes, exc, sync_outcome, faults, region_status,
                    region_recv, region_first, vpc, vinput, vresult,
                    upc, uargs, uresult,
                    zone, bank_call, bank_calls >>

\* finally: exit_programming_mode(self)
ExitProgrammingMode ==
    /\ pc = "finally"
    /\ \/ /\ wire' = Append(wire, WriteEv(ExitPacket))
          /\ outcome' = finally_outcome(exc, FALSE)
       \/ \* serial.write raises
          /\ wire' = Append(wire, WriteFailed(ExitPacket))
          /\ outcome' = finally_outcome(exc, TRUE)
    /\ pc' = IF entry = "sync_out" THEN "sync_out" ELSE "done"
    /\ UNCHANGED << entry, num, flag, databytes, handshake_result, all_bytes,
                    mmap, item_pos, packet_index, packet_count, item_bytes,
                    new_data_bytes, exc, sync_outcome, faults, region_status,
                    region_recv, region_first, vpc, vinput, vresult,
                    upc, uargs, uresult,
                    zone, bank_call, bank_calls >>

\* HA1G.sync_out: except Exception around do_upload.
sync_out_except(result) ==
    IF result.kind = "raise" THEN Raised(RadioError(MsgSyncOut)) ELSE result

SyncOutReturn ==
    /\ pc = "sync_out"
    /\ sync_outcome' = sync_out_except(outcome)
    /\ pc' = "done"
    /\ UNCHANGED << entry, num, flag, databytes, handshake_result, all_bytes,
                    mmap, item_pos, packet_index, packet_count, item_bytes,
                    new_data_bytes, exc, outcome, wire, faults, region_status,
                    region_recv, region_first, vpc, vinput, vresult,
                    upc, uargs, uresult,
                    zone, bank_call, bank_calls >>

Next ==
    \/ HandshakeExchange
    \/ HandshakeReturn
    \/ ReadExchange
    \/ WriteItemEmpty
    \/ WriteExchange
    \/ ExitProgrammingMode
    \/ SyncOutReturn

Spec == Init /\ [][Next]_vars

\* The guards of the actions of Next: a step of the session is possible.
NextEnabled ==
    \/ pc = "handshake" /\ num < HandshakeAttempts
    \/ pc = "classify"
    \/ pc \in { "read_items", "write_items" } /\ item_pos \in 1..Len(MemoryRegions)
    \/ pc = "finally"
    \/ pc = "sync_out"

\* The session is one sequential thread and every serial call returns or
\* raises: a step that stays possible is eventually taken. This is weak
\* fairness of Next, WF_vars(Next), with the guards of Next written out.
SpecLive == Spec /\ ( []<>(~ NextEnabled) \/ []<><<Next>>_vars )

(***************************************************************************)
(* validate_packet called on its own                                       *)
(***************************************************************************)

\* Longest argument tried.
MaxInputLen == 18

\* A well-formed packet to cut the arguments from.
SamplePacket == DevicePacket(8, 2, 0, 1, << 17, 18, 19 >>)

\* Arguments of every length 0..MaxInputLen: all zero, all 0xFF, the start
\* of a well-formed packet, and bytes that end in their own correct checksum
\* and the sentinel.
PlainInputs ==
    UNION { { Zeros(n),
              [i \in 1..n |-> 255],
              PySlice(SamplePacket, 0, n),
              IF n >= 3 THEN Checksummed(PySlice(SamplePacket, 0, n - 3))
                        ELSE Checksummed(<< >>),
              IF n >= 3 THEN Checksummed(Zeros(n - 3))
                        ELSE << Sentinel >> } : n \in 0..MaxInputLen }

\* The magic and a declared length of 6 + (n - 17), then n - 17 zero bytes:
\* bytes 12 and 13 ask for exactly the bytes the argument has beyond 17.
DeclaredBody(n) == Magic \o PackH(n - 11) \o Zeros(n - 17)

\* Bodies B of more than 13 bytes to checksum: zeros, the start of a
\* well-formed packet (whose byte 12 asks for 3 bytes beyond 17), and bodies
\* whose bytes 12 and 13 ask for what is there.
Bodies ==
    UNION { { Zeros(n - 3), PySlice(SamplePacket, 0, n - 3), DeclaredBody(n) }
            : n \in 17..MaxInputLen }

\* p with bit k (0..15) of its two checksum bytes flipped.
FlipCrcBit(p, k) ==
    LET pos  == Len(p) - 2 + (k \div 8)
        mask == 2 ^ (k % 8)
    IN  [p EXCEPT ![pos] = BitXor(@, mask, 8)]

\* Every body with its checksum and the sentinel, and each of those with one
\* bit of the checksum flipped.
CorruptedInputs ==
    { FlipCrcBit(Checksummed(B), k) : B \in Bodies, k \in 0..15 }

\* p with b as its last byte.
WithLastByte(p, b) == [p EXCEPT ![Len(p)] = b]

\* Every body with its checksum, ending in a byte that is not the sentinel.
UnterminatedInputs ==
    { WithLastByte(Checksummed(B), b) : B \in Bodies, b \in { 0, 254 } }

ValidateInputs ==
    PlainInputs \cup { Checksummed(B) : B \in Bodies } \cup CorruptedInputs
      \cup UnterminatedInputs

InitValidate ==
    /\ entry = "validate_packet"
    /\ mmap = << >>
    /\ pc = "idle"
    /\ num = 0
    /\ flag = FALSE
    /\ databytes = << >>
    /\ handshake_result = "none"
    /\ all_bytes = << >>
    /\ item_pos = 0
    /\ packet_index = 0
    /\ packet_count = 1
    /\ item_bytes = << >>
    /\ new_data_bytes = << >>
    /\ exc = NoExc
    /\ outcome = Pending
    /\ sync_outcome = Pending
    /\ wire = << >>
    /\ faults = 0
    /\ region_status = [r \in RegionIds |-> "none"]
    /\ region_recv = [r \in RegionIds |-> << >>]
    /\ region_first = [r \in RegionIds |-> << >>]
    /\ vpc = "call"
    /\ vinput \in ValidateInputs
    /\ vresult = FALSE
    /\ upc = "idle"
    /\ uargs = << >>
    /\ uresult = << >>
    /\ zone = NoZone
    /\ bank_call = NoCall
    /\ bank_calls = 0

ValidateCall ==
    /\ vpc = "call"
    /\ vresult' = validate_packet(vinput)
    /\ vpc' = "done"
    /\ UNCHANGED << entry, pc, num, flag, databytes, handshake_result,
                    all_bytes, mmap, item_pos, packet_index, packet_count,
                    item_bytes, new_data_bytes, exc, outcome, sync_outcome,
                    wire, faults, region_status, region_recv, region_first,
                    vinput, upc, uargs, uresult,
                    zone, bank_call, bank_calls >>

NextValidate == ValidateCall

SpecValidate == InitValidate /\ [][NextValidate]_vars

(***************************************************************************)
(* get_send_packet_bytes and calculate_crc16 called on their own           *)
(***************************************************************************)

\* Longest payload encoded.
MaxPayload == 3

\* Payloads of every length 0..MaxPayload: zeros, and the start of fixed bytes;
\* and payloads of 249, 250 and 251 bytes, whose declared length (6 more) is
\* 0x00FF, 0x0100 and 0x0101.
EncodePayloads ==
    UNION { { Zeros(n), PySlice(<< 17, 0, 255, 1, 128, 2, 64, 3 >>, 0, n) }
            : n \in 0..MaxPayload }
      \cup { [i \in 1..n |-> i % 256] : n \in { 249, 250, 251 } }

\* Arguments of get_send_packet_bytes: region ids and direction codes of the
\* protocol and the ends of their ranges, one region id above a byte, 16-bit
\* values whose two bytes differ.
EncodeArgs ==
    [ data_type    : { 0, 8, 111, 255, 264 },
      data_code    : { 0, 2, 255 },
      packet_index : { 0, 1, 258, 65535 },
      packet_count : { 0, 1, 513, 65535 },
      data_buffer  : EncodePayloads ]

\* b"123456789"
Check123456789 == << 49, 50, 51, 52, 53, 54, 55, 56, 57 >>

\* Arguments of calculate_crc16: every single byte, the starts of
\* "123456789", zeros, the starts of a well-formed packet.
CrcInputs ==
    { << b >> : b \in 0..255 }
      \cup { PySlice(Check123456789, 0, n) : n \in 0..9 }
      \cup { Zeros(n) : n \in 0..9 }
      \cup { PySlice(SamplePacket, 0, n) : n \in 0..20 }

\* Model names of 0 to 41 ASCII bytes: none, "HA1G " and "HA1UV " as
\* handshake() passes them, 40 and 41 letters.
ModelNames ==
    { << >>, MODEL \o << 32 >>, OtherModel \o << 32 >>,
      [i \in 1..40 |-> 65], [i \in 1..41 |-> 90] }

InitCodec ==
    /\ entry = "codec"
    /\ mmap = << >>
    /\ pc = "idle"
    /\ num = 0
    /\ flag = FALSE
    /\ databytes = << >>
    /\ handshake_result = "none"
    /\ all_bytes = << >>
    /\ item_pos = 0
    /\ packet_index = 0
    /\ packet_count = 1
    /\ item_bytes = << >>
    /\ new_data_bytes = << >>
    /\ exc = NoExc
    /\ outcome = Pending
    /\ sync_outcome = Pending
    /\ wire = << >>
    /\ faults = 0
    /\ region_status = [r \in RegionIds |-> "none"]
    /\ region_recv = [r \in RegionIds |-> << >>]
    /\ region_first = [r \in RegionIds |-> << >>]
    /\ vpc = "idle"
    /\ vinput = << >>
    /\ vresult = FALSE
    /\ uresult = << >>
    /\ zone = NoZone
    /\ bank_call = NoCall
    /\ bank_calls = 0
    /\ \/ upc = "encode" /\ uargs \in EncodeArgs
       \/ upc = "crc" /\ uargs \in [ buf : CrcInputs ]
       \/ upc = "handshake_bytes" /\ uargs \in [ currentModel : ModelNames ]

EncodeCall ==
    /\ upc = "encode"
    /\ uresult' = get_send_packet_bytes(uargs.data_type, uargs.packet_index,
                                        uargs.data_code, uargs.packet_count,
                                        uargs.data_buffer)
    /\ upc' = "encoded"
    /\ UNCHANGED << entry, pc, num, flag, databytes, handshake_result,
                    all_bytes, mmap, item_pos, packet_index, packet_count,
                    item_bytes, new_data_bytes, exc, outcome, sync_outcome,
                    wire, faults, region_status, region_recv, region_first,
                    vpc, vinput, vresult, uargs,
                    zone, bank_call, bank_calls >>

CrcCall ==
    /\ upc = "crc"
    /\ uresult' = calculate_crc16(uargs.buf)
    /\ upc' = "crc_done"
    /\ UNCHANGED << entry, pc, num, flag, databytes, handshake_result,
                    all_bytes, mmap, item_pos, packet_index, packet_count,
                    item_bytes, new_data_bytes, exc, outcome, sync_outcome,
                    wire, faults, region_status, region_recv, region_first,
                    vpc, vinput, vresult, uargs,
                    zone, bank_call, bank_calls >>

HandshakeBytesCall ==
    /\ upc = "handshake_bytes"
    /\ uresult' = get_handshake_bytes(uargs.currentModel)
    /\ upc' = "handshake_built"
    /\ UNCHANGED << entry, pc, num, flag, databytes, handshake_result,
                    all_bytes, mmap, item_pos, packet_index, packet_count,
                    item_bytes, new_data_bytes, exc, outcome, sync_outcome,
                    wire, faults, region_status, region_recv, region_first,
                    vpc, vinput, vresult, uargs,
                    zone, bank_call, bank_calls >>

\* validate_packet applied to the packet just built.
ValidateBuilt ==
    /\ upc \in { "encoded", "handshake_built" }
    /\ vinput' = uresult
    /\ vresult' = validate_packet(uresult)
    /\ upc' = "validated"
    /\ UNCHANGED << entry, pc, num, flag, databytes, handshake_result,
                    all_bytes, mmap, item_pos, packet_index, packet_count,
                    item_bytes, new_data_bytes, exc, outcome, sync_outcome,
                    wire, faults, region_status, region_recv, region_first,
                    vpc, uargs, uresult,
                    zone, bank_call, bank_calls >>

NextCodec == EncodeCall \/ CrcCall \/ HandshakeBytesCall \/ ValidateBuilt

SpecCodec == InitCodec /\ [][NextCodec]_vars

(***************************************************************************)
(* Bank model: HA1GBankModel over one enabled bank, set_zone_ch_list       *)
(***************************************************************************)

\* Calls of the bank model in one behaviour.
MaxBankCalls == 3

\* zone_item.chindex[i] of a slot that holds no channel
NoChannel == 65535

\* range(0, 16) of set_zone_ch_list: the slots of chindex
ZoneSlots == 16

\* len(channels_in_bank) < 16
BankCapacity == 16

\* sorted(xs)
RECURSIVE Sorted(_)
Sorted(S) ==
    IF S = { } THEN << >>
    ELSE LET x == CHOOSE a \in S : \A b \in S : a <= b
         IN  << x >> \o Sorted(S \ { x })

\* [x + 2 for x in channels_in_bank], sorted
zone_ch_list(channels) == Sorted({ x + 2 : x \in channels })

\* _channel_numbers_in_bank for a bank in the zone index list.
channel_numbers_in_bank(z) ==
    { z.chindex[i] - 2 :
        i \in { j \in 1..Len(z.chindex) : z.chindex[j] # NoChannel } }

\* set_zone_ch_list for a zone_index within the zone list: the zone after it.
set_zone_ch_list(z, zone_ch_dict) ==
    LET zone_ch_count == Len(zone_ch_dict)
    IN  [ chnum   |-> zone_ch_count,
          chindex |-> IF zone_ch_count > 0
                      THEN [i \in 1..ZoneSlots |->
                              IF i - 1 < zone_ch_count THEN zone_ch_dict[i]
                                                       ELSE NoChannel]
                      ELSE z.chindex ]

\* The zone of an image whose bank holds the channels S.
ZoneOf(S) ==
    [ chnum   |-> Cardinality(S),
      chindex |-> [i \in 1..ZoneSlots |->
                     IF i <= Cardinality(S) THEN zone_ch_list(S)[i]
                                            ELSE NoChannel] ]

\* Memberships the bank starts with: none, one channel, one slot free, full.
BankMemberships == { { }, { 5 }, 0..14, 0..15 }

\* memory.number of the memories the calls are made with.
BankMemories == { 0, 5, 15, 16 }

\* memory.freq of those memories: empty, or 462.5625 MHz.
BankFreqs == { 0, 462562500 }

InitBank ==
    /\ entry = "bank_model"
    /\ mmap = << >>
    /\ pc = "idle"
    /\ num = 0
    /\ flag = FALSE
    /\ databytes = << >>
    /\ handshake_result = "none"
    /\ all_bytes = << >>
    /\ item_pos = 0
    /\ packet_index = 0
    /\ packet_count = 1
    /\ item_bytes = << >>
    /\ new_data_bytes = << >>
    /\ exc = NoExc
    /\ outcome = Pending
    /\ sync_outcome = Pending
    /\ wire = << >>
    /\ faults = 0
    /\ region_status = [r \in RegionIds |-> "none"]
    /\ region_recv = [r \in RegionIds |-> << >>]
    /\ region_first = [r \in RegionIds |-> << >>]
    /\ vpc = "idle"
    /\ vinput = << >>
    /\ vresult = FALSE
    /\ upc = "idle"
    /\ uargs = << >>
    /\ uresult = << >>
    /\ zone \in { ZoneOf(S) : S \in BankMemberships }
    /\ bank_call = NoCall
    /\ bank_calls = 0

\* HA1GBankModel.add_memory_to_mapping(memory, bank)
add_memory_to_mapping ==
    /\ entry = "bank_model"
    /\ bank_calls < MaxBankCalls
    /\ \E number \in BankMemories, freq \in BankFreqs :
         LET channels_in_bank == channel_numbers_in_bank(zone)
             call(r) == [op |-> "add", number |-> number, freq |-> freq,
                         raised |-> r]
         IN  IF freq = 0
             THEN /\ bank_call' = call("RadioError")
                  /\ zone' = zone
             ELSE IF Cardinality(channels_in_bank) < BankCapacity
             THEN /\ bank_call' = call("none")
                  /\ zone' = IF number \notin channels_in_bank
                             THEN set_zone_ch_list(zone,
                                    zone_ch_list(channels_in_bank \cup { number }))
                             ELSE zone
             ELSE /\ bank_call' = call("Exception")
                  /\ zone' = zone
    /\ bank_calls' = bank_calls + 1
    /\ UNCHANGED << entry, pc, num, flag, databytes, handshake_result,
                    all_bytes, mmap, item_pos, packet_index, packet_count,
                    item_bytes, new_data_bytes, exc, outcome, sync_outcome,
                    wire, faults, region_status, region_recv, region_first,
                    vpc, vinput, vresult, upc, uargs, uresult >>

\* HA1GBankModel.remove_memory_from_mapping(memory, bank)
remove_memory_from_mapping ==
    /\ entry = "bank_model"
    /\ bank_calls < MaxBankCalls
    /\ \E number \in BankMemories, freq \in BankFreqs :
         LET channels_in_bank == channel_numbers_in_bank(zone)
             call(r) == [op |-> "remove", number |-> number, freq |-> freq,
                         raised |-> r]
         IN  IF number \in channels_in_bank
             THEN /\ bank_call' = call("none")
                  /\ zone' = set_zone_ch_list(zone,
                                zone_ch_list(channels_in_bank \ { number }))
             ELSE /\ bank_call' = call("Exception")
                  /\ zone' = zone
    /\ bank_calls' = bank_calls + 1
    /\ UNCHANGED << entry, pc, num, flag, databytes, handshake_result,
                    all_bytes, mmap, item_pos, packet_index, packet_count,
                    item_bytes, new_data_bytes, exc, outcome, sync_outcome,
                    wire, faults, region_status, region_recv, region_first,
                    vpc, vinput, vresult, upc, uargs, uresult >>

NextBank == add_memory_to_mapping \/ remove_memory_from_mapping

SpecBank == InitBank /\ [][NextBank]_vars

(***************************************************************************)
(* Observations on a session                                               *)
(***************************************************************************)

IsWrite(e) == e.op = "write"

\* The packets handed to serial.write, in order.
Writes == SelectSeq(wire, IsWrite)

HandshakePacket == get_handshake_bytes(MODEL \o << 32 >>)

IsHandshakeWrite(e) == e.op = "write" /\ e.data = HandshakePacket

\* Handshake packets sent so far.
HsSends == Len(SelectSeq(wire, IsHandshakeWrite))

\* Packets whose region id (byte 14) is a catalogue region.
IsRegionWrite(e) == e.op = "write" /\ e.data[15] \in RegionIds

RegionWrites == SelectSeq(wire, IsRegionWrite)

\* The region ids of a sequence of packets, runs of equal ids merged.
RECURSIVE RegionRuns(_)
RegionRuns(ws) ==
    IF ws = << >> THEN << >>
    ELSE LET rest == RegionRuns(Tail(ws))
             id   == Head(ws).data[15]
         IN  IF rest # << >> /\ Head(rest) = id THEN rest ELSE << id >> \o rest

\* image[start : start+length] of a region
RegionSlice(image, item) ==
    PySlice(image, MEMORY_REGIONS_RANGES[item][1],
            MEMORY_REGIONS_RANGES[item][1] + MEMORY_REGIONS_RANGES[item][2])

\* do_download / do_upload has returned or raised.
SessionLeft == pc \in { "sync_out", "done" }

\* read_items has ended (it is only entered after an accepted handshake).
ReadItemsEnded ==
    entry = "do_download" /\ handshake_result = Normal /\ pc \in { "finally", "done" }

(***************************************************************************)
(* Claims                                                                  *)
(***************************************************************************)

\* C1: download is best-effort per region.  When read_items has ended it has
\* returned without raising, every catalogue region was requested, in
\* catalogue order, whether or not an earlier region failed; the image holds,
\* at each region whose exchange succeeded, the bytes the radio sent for it
\* (as many as fit the region), and only zeros at each region that failed.
C1_DownloadBestEffort ==
    ReadItemsEnded =>
        /\ exc = NoExc
        /\ RegionRuns(RegionWrites) = MemoryRegions
        /\ \A item \in RegionIds :
             /\ region_status[item] \in { "ok", "failed" }
             /\ region_status[item] = "ok" =>
                  LET n == Min(Len(region_recv[item]), MEMORY_REGIONS_RANGES[item][2])
                  IN  PySlice(RegionSlice(all_bytes, item), 0, n)
                        = PySlice(region_recv[item], 0, n)
             /\ region_status[item] = "failed" =>
                  RegionSlice(all_bytes, item) = Zeros(MEMORY_REGIONS_RANGES[item][2])

\* C1 witness: a download that returned with region 3 failed (all zero) and
\* the regions before and after it holding the radio's bytes.
C1_Witness ==
    /\ ReadItemsEnded /\ pc = "done" /\ outcome = Returned
    /\ region_status[3] = "failed"
    /\ RegionSlice(all_bytes, 3) = Zeros(3)
    /\ RegionSlice(all_bytes, 2) = DeviceRegion(2)
    /\ RegionSlice(all_bytes, 4) = DeviceRegion(4)
    /\ RegionSlice(all_bytes, 15) = DeviceRegion(15)

\* C2: upload is fail-fast.  A region exchange of write_items whose answer
\* fails validation or echoes another region id makes write_items raise
\* RadioError("radio reported failure") in that very step, and from then on
\* no packet for a catalogue region is written any more.
C2_UploadFailFast ==
    [][ /\ ( /\ pc = "write_items"
             /\ Len(wire') = Len(wire) + 2
             /\ ~ wire'[Len(wire')].raised
             /\ \/ ~ validate_packet(new_data_bytes')
                \/ /\ Len(new_data_bytes') > 14
                   /\ new_data_bytes'[15] # MemoryRegions[item_pos] )
           => ( pc' = "finally" /\ exc' = RadioError(MsgReported) )
        /\ ( entry = "sync_out" /\ exc = RadioError(MsgReported) )
           => RegionWrites' = RegionWrites ]_vars

\* C2 witness: the upload ended with the first packet of the second written
\* region (8) refused: two region packets were sent in all, none later.
C2_Witness ==
    /\ entry = "sync_out" /\ pc = "done"
    /\ exc = RadioError(MsgReported)
    /\ MemoryRegions[item_pos] = 8 /\ packet_index = 0
    /\ Len(RegionWrites) = 2
    /\ RegionRuns(RegionWrites) = << 6, 8 >>

\* The exit-programming-mode packet as the wire layout spells it: region id
\* 111, direction 0, index 0, count 1, payload 0x00.
ClaimedExitPacket ==
    << 82, 68, 84, 80, 1, 0, 0, 0, 0, 0, 0, 0, 7, 0, 111, 0, 0, 0, 1, 0, 0,
       8, 183, 255 >>

IsExitWrite(e) == e.op = "write" /\ e.data = ClaimedExitPacket

ExitWrites == Len(SelectSeq(wire, IsExitWrite))

\* C3: when do_download / do_upload has returned or raised, serial.write was
\* called with the exit-programming-mode packet exactly once and that call
\* is the last call on the port; before that it was never called with it.
C3_ExitPacketOnce ==
    IF SessionLeft
    THEN ExitWrites = 1 /\ IsExitWrite(wire[Len(wire)])
    ELSE ExitWrites = 0

\* C3 witness: a session left with an error raised in the middle of the
\* region transfer, the exit packet being its last write.
C3_Witness ==
    /\ pc = "done"
    /\ exc = RadioError(MsgReported)
    /\ Len(RegionWrites) > 2
    /\ ExitWrites = 1 /\ IsExitWrite(wire[Len(wire)])

\* C4: if the try body of do_download / do_upload fails with an error E and
\* the write of the exit packet fails too, the caller still gets E.
C4_ExitFailureKeepsError ==
    ( SessionLeft /\ exc # NoExc /\ wire[Len(wire)].raised )
        => outcome = Raised(exc)

\* C5: do_download is gated by the handshake.  It returns an image, and it
\* sends region packets, only after the outcome Accepted; after ModelMismatch
\* it raises "Radio model mismatch", after PasswordProtected "Radio is
\* password protected", after Garbled the generic error.
C5_DownloadGated ==
    ( entry = "do_download" /\ pc = "done" ) =>
        /\ outcome = Returned => handshake_result = Normal
        /\ RegionWrites # << >> => handshake_result = Normal
        /\ handshake_result = RadioWrong
             => outcome = Raised(RadioError(MsgModelMismatch))
        /\ handshake_result = PwdWrong
             => outcome = Raised(RadioError(MsgPassword))
        /\ handshake_result = Wrong
             => outcome = Raised(RadioError(MsgUnknown))

\* C6: through sync_out, ModelMismatch reaches the caller as the model
\* mismatch error and PasswordProtected as the password error, and region
\* packets are written only after Accepted.
C6_UploadErrorTaxonomy ==
    ( entry = "sync_out" /\ pc = "done" ) =>
        /\ RegionWrites # << >> => handshake_result = Normal
        /\ handshake_result = RadioWrong
             => sync_outcome = Raised(RadioError(MsgModelMismatch))
        /\ handshake_result = PwdWrong
             => sync_outcome = Raised(RadioError(MsgPassword))

\* C7: when no answer passed validation, handshake() ends after exactly 15
\* handshake packets and its outcome is the generic failure: it returns
\* Garbled (Wrong), or raises, which do_download / do_upload report as the
\* generic error too.
C7_GarbledAfter15 ==
    /\ HsSends <= 15
    /\ ( handshake_result # "none" /\ ~ flag )
         => ( HsSends = 15 /\ handshake_result \in { Wrong, "IndexError" } )

\* C8: ModelMismatch and PasswordProtected end the handshake.  Once the
\* answer to attempt k (= num) passed validation and classifies as one of
\* them, the loop is left, the handshake packets sent stay k for the rest of
\* the session, and handshake() returns that outcome.
C8_TerminalOutcomes ==
    ( flag /\ handshake_handle_connect_event(databytes) \in { RadioWrong, PwdWrong } )
        => /\ pc # "handshake"
           /\ HsSends = num
           /\ handshake_result \in
                { "none", handshake_handle_connect_event(databytes) }

\* C8 witness: byte 20 = 1 in the first answer: PasswordProtected after one
\* handshake packet, at the end of the session.
C8_Witness ==
    /\ pc = "done"
    /\ flag /\ PySlice(databytes, 20, 21) = << 1 >>
    /\ handshake_result = PwdWrong
    /\ num = 1 /\ HsSends = 1

\* C9: a validated answer with bytes [14:16] = 00 01 is classified as
\* PasswordProtected when byte 20 is 1, else as Accepted when bytes
\* [20 : 20+len(model)] are the model name, else as ModelMismatch.
C9_Classification ==
    ( handshake_result # "none" /\ flag /\ PySlice(databytes, 14, 16) = << 0, 1 >> )
        => handshake_result =
             ( IF PySlice(databytes, 20, 21) = << 1 >> THEN PwdWrong
               ELSE IF PySlice(databytes, 20, 20 + Len(MODEL)) = MODEL THEN Normal
               ELSE RadioWrong )

\* C9 as amended: the classification above holds for validated answers of
\* at least 21 bytes; for a validated answer of 17..20 bytes with bytes
\* [14:16] = 00 01 handshake_handle_connect_event raises IndexError.
C9_ClassificationLong ==
    ( handshake_result # "none" /\ flag /\ PySlice(databytes, 14, 16) = << 0, 1 >> )
        => handshake_result =
             ( IF Len(databytes) <= 20 THEN "IndexError"
               ELSE IF databytes[21] = 1 THEN PwdWrong
               ELSE IF PySlice(databytes, 20, 20 + Len(MODEL)) = MODEL THEN Normal
               ELSE RadioWrong )

\* C9 witness: the radio echoes the model name, byte 20 is not 1: Accepted
\* on the first attempt.
C9_Witness ==
    /\ num = 1 /\ flag /\ HsSends = 1
    /\ PySlice(databytes, 14, 16) = << 0, 1 >>
    /\ PySlice(databytes, 20, 25) = MODEL \o << 32 >>
    /\ handshake_result = Normal

\* C10: validate_packet returns False for every argument of at most 13 bytes.
C10_ShortInputRejected ==
    ( vpc = "done" /\ Len(vinput) <= 13 ) => vresult = FALSE

\* C10 witness: 13 bytes that end in their own correct checksum and the
\* sentinel were rejected.
C10_Witness ==
    /\ vpc = "done"
    /\ Len(vinput) = 13
    /\ vinput = Checksummed(PySlice(vinput, 0, 10))
    /\ vresult = FALSE

\* p is some bytes followed by their own checksum (little-endian) and the
\* sentinel.
IsChecksummed(p) ==
    /\ Len(p) >= 3
    /\ PySlice(p, -3, -1) = calculate_crc16(PySlice(p, 0, -3))
    /\ p[Len(p)] = Sentinel

\* p is one flipped checksum bit away from such a packet.
OneCrcBitOff(p) ==
    Len(p) >= 3 /\ \E k \in 0..15 : IsChecksummed(FlipCrcBit(p, k))

\* The payload length bytes 12 and 13 of p ask for (chunk size above 255).
DeclaredMin(p) == (IF p[13] > 6 THEN p[13] - 6 ELSE 0) + 256 * p[14]

\* C11: every B of more than 13 bytes followed by its checksum and the
\* sentinel is accepted by validate_packet, and a packet one flipped checksum
\* bit away from such a packet is rejected.
C11_ChecksumRoundTrip ==
    ( vpc = "done" /\ Len(vinput) > 16 ) =>
        /\ IsChecksummed(vinput) => vresult = TRUE
        /\ OneCrcBitOff(vinput) => vresult = FALSE

\* C11 as amended: B followed by its checksum and the sentinel is accepted
\* when, in addition, the payload length its bytes 12 and 13 ask for is at
\* most len(B) - 14 (the packet's length minus 17), and rejected when it is
\* more; one flipped checksum bit makes validate_packet reject.
C11_ChecksumRoundTripBounded ==
    ( vpc = "done" /\ Len(vinput) > 16 ) =>
        /\ IsChecksummed(vinput) =>
             vresult = ( DeclaredMin(vinput) <= Len(vinput) - 17 )
        /\ OneCrcBitOff(vinput) => vresult = FALSE

\* C11 witness: an 18-byte packet asking for the one payload byte it has,
\* with the highest bit of its checksum flipped, was rejected.
C11_Witness ==
    /\ vpc = "done"
    /\ vinput = FlipCrcBit(Checksummed(DeclaredBody(18)), 15)
    /\ DeclaredMin(vinput) = Len(vinput) - 17
    /\ ~ IsChecksummed(vinput)
    /\ vresult = FALSE

\* C12: for a region id R and a direction D in 0..255, an index I and a
\* count C in 0..65535 and a payload P of N bytes, get_send_packet_bytes
\* gives exactly 23+N bytes: [12:14] = N+6 little-endian, byte 14 = R, byte
\* 15 = D, [16:18] = I and [18:20] = C little-endian, [20:20+N] = P,
\* [20+N:22+N] = the checksum of bytes [0, 20+N), and a last byte 0xFF.
C12_EncodeLayout ==
    ( /\ upc = "encoded"
      /\ uargs.data_type \in 0..255 /\ uargs.data_code \in 0..255
      /\ uargs.packet_index \in 0..65535 /\ uargs.packet_count \in 0..65535 )
    => LET N == Len(uargs.data_buffer)
           p == uresult
       IN  /\ Len(p) = 23 + N
           /\ PySlice(p, 12, 14) = << (N + 6) % 256, (N + 6) \div 256 >>
           /\ p[15] = uargs.data_type
           /\ p[16] = uargs.data_code
           /\ p[17] + 256 * p[18] = uargs.packet_index
           /\ p[19] + 256 * p[20] = uargs.packet_count
           /\ PySlice(p, 20, 20 + N) = uargs.data_buffer
           /\ PySlice(p, 20 + N, 22 + N) = calculate_crc16(PySlice(p, 0, 20 + N))
           /\ p[23 + N] = 255

\* C12 witness: region 8, direction 2, index 0x0102, count 0x0201 and three
\* payload bytes were encoded into 26 bytes, the index as 02 01.
C12_Witness ==
    /\ upc = "encoded"
    /\ uargs = [ data_type |-> 8, data_code |-> 2, packet_index |-> 258,
                 packet_count |-> 513, data_buffer |-> << 17, 0, 255 >> ]
    /\ Len(uresult) = 26
    /\ PySlice(uresult, 14, 23) = << 8, 2, 2, 1, 1, 2, 17, 0, 255 >>

\* x with its n bits in the opposite order.
RECURSIVE Reflect(_, _)
Reflect(x, n) ==
    IF n = 0 THEN 0 ELSE (x % 2) * 2 ^ (n - 1) + Reflect(x \div 2, n - 1)

\* One step of the unreflected register: shift left, xor 0x8005 (32773) when
\* bit 15 was set.
RECURSIVE ArcBits(_, _)
ArcBits(crc, n) ==
    IF n = 0 THEN crc
    ELSE ArcBits(IF crc >= 32768
                 THEN BitXor((2 * crc) % 65536, 32773, 16)
                 ELSE (2 * crc) % 65536, n - 1)

\* CRC-16/ARC by its catalogue parameters: polynomial 0x8005, initial
\* register 0, input bytes and output reflected, no final xor.
RECURSIVE ArcRegister(_, _, _)
ArcRegister(buf, crc, i) ==
    IF i > Len(buf) THEN crc
    ELSE LET next == ArcBits(BitXor(crc, 256 * Reflect(buf[i], 8), 16), 8)
         IN  IF next >= 0 THEN ArcRegister(buf, next, i + 1) ELSE 0

CrcArc(buf) == Reflect(ArcRegister(buf, 0, 1), 16)

\* C13: calculate_crc16 gives two bytes, the little-endian form of the
\* CRC-16 with reflected polynomial 0xA001 (0x8005), initial register 0 and
\* no final xor; of the empty input that is 0x0000 and of "123456789" 0xBB3D.
C13_Crc16Arc ==
    upc = "crc_done" =>
        /\ Len(uresult) = 2
        /\ uresult[1] \in 0..255 /\ uresult[2] \in 0..255
        /\ uresult[1] + 256 * uresult[2] = CrcArc(uargs.buf)
        /\ uargs.buf = << >> => uresult = << 0, 0 >>
        /\ uargs.buf = Check123456789 => uresult = << 61, 187 >>

\* C13 witness: the checksum of "123456789" came out as 3D BB.
C13_Witness ==
    /\ upc = "crc_done"
    /\ uargs.buf = Check123456789
    /\ uresult = << 61, 187 >>

\* Image offset i (0-based) lies in the catalogue range of region item.
InRegion(i, item) ==
    /\ MEMORY_REGIONS_RANGES[item][1] <= i
    /\ i < MEMORY_REGIONS_RANGES[item][1] + MEMORY_REGIONS_RANGES[item][2]

\* read_items has been entered.
ReadItemsEntered == entry = "do_download" /\ handshake_result = Normal

\* C14: from the entry of read_items on, whatever the radio answers, the image
\* has exactly _memsize bytes and every byte outside the regions whose
\* transfer returned successfully is zero.
C14_ImageInvariant ==
    ReadItemsEntered =>
        /\ Len(all_bytes) = memsize
        /\ \A i \in 0..(memsize - 1) :
             all_bytes[i + 1] # 0 =>
                 \E item \in RegionIds :
                     region_status[item] = "ok" /\ InRegion(i, item)

\* C14 witness: in the middle of read_items, region 3 has returned after an
\* answer longer than the region; it holds the radio's bytes, the image still
\* has _memsize bytes and the next region, not transferred yet, is zero.
C14_Witness ==
    /\ ReadItemsEntered /\ pc = "read_items"
    /\ region_status[3] = "ok"
    /\ Len(region_recv[3]) > MEMORY_REGIONS_RANGES[3][2]
    /\ RegionSlice(all_bytes, 3) = DeviceRegion(3)
    /\ region_status[4] = "none"
    /\ RegionSlice(all_bytes, 4) = Zeros(1)
    /\ Len(all_bytes) = memsize

\* A call on the serial port other than the write of the exit packet raised,
\* or handshake_handle_connect_event raised IndexError.
OtherRaised ==
    \/ \E i \in 1..Len(wire) : wire[i].raised /\ wire[i].data # ExitPacket
    \/ handshake_result = "IndexError"

\* C15: when an exception other than a protocol error was raised inside the
\* handshake or the transfer, do_download / do_upload raises the generic
\* RadioError "Unknown error communicating with radio".
C15_GenericError ==
    ( SessionLeft /\ OtherRaised ) => outcome = Raised(RadioError(MsgUnknown))

\* C16: handshake() returns Accepted, ModelMismatch or PasswordProtected only
\* for an answer that passed validate_packet, and region packets are written
\* only then.
C16_OnlyValidatedClassified ==
    /\ handshake_result \in { Normal, RadioWrong, PwdWrong } => flag
    /\ RegionWrites # << >> => flag

\* C17: a validated answer whose bytes [14:16] are not 00 01 is Garbled, and
\* Garbled is retried: the loop of handshake() is left after such an answer
\* only when 15 handshake packets have been sent.
C17_GarbledRetried ==
    ( flag /\ PySlice(databytes, 14, 16) # << 0, 1 >> ) =>
        /\ handshake_result \in { "none", Wrong }
        /\ pc # "handshake" => HsSends = HandshakeAttempts

\* C18: validate_packet rejects 13 bytes, and among the arguments there is
\* one of exactly 14 bytes that it accepts.
C18_Boundary13 ==
    /\ ( vpc = "done" /\ Len(vinput) = 13 ) => vresult = FALSE
    /\ \E p \in ValidateInputs : Len(p) = 14 /\ validate_packet(p)

\* C18 as amended: validate_packet rejects every argument of 13 bytes, and
\* also every argument of 14, 15 or 16 bytes, whatever its checksum and
\* whatever its bytes 12 and 13 ask for: the shortest arguments it accepts
\* have 17 bytes.
C18_Boundary16 ==
    /\ ( vpc = "done" /\ Len(vinput) <= 16 ) => vresult = FALSE
    /\ \E p \in ValidateInputs : Len(p) = 17 /\ validate_packet(p)

\* C18 witness: 14 zero bytes, whose last bytes are the checksum of the
\* first 11 and whose bytes 12 and 13 ask for no payload, were rejected.
C18_Witness ==
    /\ vpc = "done"
    /\ vinput = Zeros(14)
    /\ PySlice(vinput, -3, -1) = calculate_crc16(PySlice(vinput, 0, -3))
    /\ DeclaredMin(vinput) = 0
    /\ vresult = FALSE

\* The read requests written for region item, in order.
RegionRequests(item) ==
    LET IsRequest(e) == e.op = "write" /\ e.data[15] = item
    IN  SelectSeq(wire, IsRequest)

\* The count in bytes [18:20] of the first accepted answer of region item.
FirstCount(item) == region_first[item][1] + 256 * region_first[item][2]

\* Every request of a download has direction code 2 and carries, as its
\* payload, the number of requests made before it for that region.
RequestsWellFormed ==
    \A item \in RegionIds :
        \A k \in 1..Len(RegionRequests(item)) :
            /\ RegionRequests(item)[k].data[16] = 2
            /\ PySlice(RegionRequests(item)[k].data, 20, 22)
                 = << (k - 1) % 256, (k - 1) \div 256 >>

\* C19: when a region of a download has returned, the number of exchanges
\* made for it is the count in bytes [18:20] of its first answer; every
\* request has direction code 2 and the k-th asks for packet k.
C19_ExchangeCount ==
    entry = "do_download" =>
        /\ RequestsWellFormed
        /\ \A item \in RegionIds :
             region_status[item] = "ok" =>
                 Len(RegionRequests(item)) = FirstCount(item)

\* C19 as amended: the number of exchanges is that count, and 1 when the
\* count is 0 (the first exchange is made before any count is known); while
\* the region is in progress fewer exchanges than that have been made.
C19_ExchangeCountMin1 ==
    entry = "do_download" =>
        /\ RequestsWellFormed
        /\ \A item \in RegionIds :
             /\ region_status[item] = "ok" =>
                  Len(RegionRequests(item)) = Max(1, FirstCount(item))
             /\ ( region_status[item] = "none" /\ region_first[item] # << >> ) =>
                  Len(RegionRequests(item)) < FirstCount(item)

\* C19 witness: region 8 returned after two exchanges, the count of its first
\* answer being 2 and that of its second, the last answer read, being 3.
C19_Witness ==
    /\ entry = "do_download"
    /\ region_status[8] = "ok"
    /\ region_first[8] = << 2, 0 >>
    /\ PySlice(new_data_bytes, 14, 15) = << 8 >>
    /\ PySlice(new_data_bytes, 16, 20) = << 1, 0, 3, 0 >>
    /\ Len(RegionRequests(8)) = 2

\* C20: a region exchange of a download whose answer fails validation or
\* echoes another region id ends that region in that very step, leaving the
\* image as it was; from then on no request is written for that region and
\* its bytes of the image stay zero.
C20_AllOrNothing ==
    [][ \A item \in RegionIds :
          /\ ( /\ pc = "read_items" /\ MemoryRegions[item_pos] = item
               /\ Len(wire') = Len(wire) + 2
               /\ ~ wire'[Len(wire')].raised
               /\ \/ ~ validate_packet(new_data_bytes')
                  \/ /\ Len(new_data_bytes') > 14
                     /\ new_data_bytes'[15] # item )
             => ( region_status'[item] = "failed" /\ all_bytes' = all_bytes )
          /\ ( entry = "do_download" /\ region_status[item] = "failed" )
             => /\ RegionRequests(item)' = RegionRequests(item)
                /\ RegionSlice(all_bytes', item)
                     = Zeros(MEMORY_REGIONS_RANGES[item][2]) ]_vars

\* C20 witness: region 8 failed at its second exchange, after its first
\* packet of three bytes had been received; it is zero in the image of the
\* finished download, and the next region holds the radio's bytes.
C20_Witness ==
    /\ entry = "do_download" /\ pc = "done"
    /\ region_status[8] = "failed"
    /\ Len(RegionRequests(8)) = 2
    /\ Len(region_recv[8]) = 3
    /\ RegionSlice(all_bytes, 8) = Zeros(5)
    /\ region_status[11] = "ok"
    /\ RegionSlice(all_bytes, 11) = DeviceRegion(11)

\* C21: in the step in which a region of a download returns, with A the
\* payloads (bytes [20 : len-3]) of its answers in order and n the smaller of
\* len(A) and the region's length, the image changes to A[:n] at
\* [start, start+n) and nowhere else (its length included), and nothing is
\* raised: read_items goes on.
C21_CopyTruncate ==
    [][ \A item \in RegionIds :
          ( region_status[item] = "none" /\ region_status'[item] = "ok" ) =>
              LET A     == region_recv'[item]
                  start == MEMORY_REGIONS_RANGES[item][1]
                  n     == Min(Len(A), MEMORY_REGIONS_RANGES[item][2])
              IN  /\ all_bytes' =
                       [ i \in 1..Len(all_bytes) |->
                           IF start < i /\ i <= start + n
                           THEN A[i - start] ELSE all_bytes[i] ]
                  /\ exc' = NoExc
                  /\ pc' \in { "read_items", "finally" } ]_vars

\* C21 witness: region 3 (three bytes) returned with one byte received: the
\* byte is stored and the two after it are as before, zero; the regions
\* around it hold the radio's bytes and the image has _memsize bytes.
C21_Witness ==
    /\ entry = "do_download"
    /\ region_status[3] = "ok" /\ Len(region_recv[3]) = 1
    /\ RegionSlice(all_bytes, 3) = << DeviceMem(2), 0, 0 >>
    /\ RegionSlice(all_bytes, 2) = DeviceRegion(2)
    /\ region_status[4] = "ok"
    /\ RegionSlice(all_bytes, 4) = DeviceRegion(4)
    /\ Len(all_bytes) = memsize

\* The place of region item in MemoryRegions.
RegionPos(item) == CHOOSE i \in 1..Len(MemoryRegions) : MemoryRegions[i] = item

\* The regions an upload writes.
WritableIds == RegionIds \ { 2, 3, 4, 7 }

\* write_items has finished region item.
UploadDone(item) ==
    /\ entry = "sync_out" /\ handshake_result = Normal
    /\ item \in WritableIds
    /\ RegionPos(item) < item_pos

\* The payloads (bytes [20 : len-3]) of a sequence of packets, concatenated.
RECURSIVE Payloads(_)
Payloads(ws) ==
    IF ws = << >> THEN << >>
    ELSE PySlice(Head(ws).data, 20, -3) \o Payloads(Tail(ws))

\* C22: for a writable region (start, L) that the image covers and the page
\* size S, the packets an upload writes for it are, in order, packets with
\* direction code 0, packet_index 0, 1, ..., packet_count ceil(L/S) and
\* page k of image[start : start+L] (at most S bytes) as payload, never more
\* than ceil(L/S) of them; once write_items has finished the region they are
\* exactly ceil(L/S) and their payloads together are image[start : start+L].
C22_UploadPaging ==
    entry = "sync_out" =>
        \A item \in WritableIds :
            LET start == MEMORY_REGIONS_RANGES[item][1]
                L     == MEMORY_REGIONS_RANGES[item][2]
                S     == write_page_len
                pages == (L + S - 1) \div S
                ws    == RegionRequests(item)
            IN  Len(mmap) >= start + L =>
                  /\ Len(ws) <= pages
                  /\ \A k \in 1..Len(ws) :
                       /\ ws[k].data[16] = 0
                       /\ PySlice(ws[k].data, 16, 18)
                            = << (k - 1) % 256, (k - 1) \div 256 >>
                       /\ PySlice(ws[k].data, 18, 20)
                            = << pages % 256, pages \div 256 >>
                       /\ Len(ws[k].data) - 23 <= S
                       /\ PySlice(ws[k].data, 20, -3)
                            = PySlice(mmap, start + (k - 1) * S,
                                      Min(start + k * S, start + L))
                  /\ UploadDone(item) =>
                       /\ Len(ws) = pages
                       /\ Payloads(ws) = PySlice(mmap, start, start + L)

\* C22 witness: a whole upload has returned; region 8 (five bytes) went out
\* in three packets, the last with the one remaining byte.
C22_Witness ==
    /\ entry = "sync_out" /\ pc = "done" /\ outcome = Returned
    /\ UploadDone(8)
    /\ Len(RegionRequests(8)) = (5 + write_page_len - 1) \div write_page_len
    /\ Payloads(RegionRequests(8)) = RegionSlice(mmap, 8)
    /\ Len(RegionRequests(8)[Len(RegionRequests(8))].data) - 23
         = 5 - write_page_len * (Len(RegionRequests(8)) - 1)

\* C23: an upload never writes a packet whose region id (byte 14) is 2, 3, 4
\* or 7; the regions it writes come in the order 6, 8, 11, 12, 13, 15, each
\* finished before the next starts, and an upload that returned has written
\* all six.
C23_UploadRegions ==
    entry = "sync_out" =>
        /\ \A i \in 1..Len(Writes) : Writes[i].data[15] \notin { 2, 3, 4, 7 }
        /\ \E n \in 0..6 :
             RegionRuns(RegionWrites) = SubSeq(<< 6, 8, 11, 12, 13, 15 >>, 1, n)
        /\ outcome = Returned =>
             RegionRuns(RegionWrites) = << 6, 8, 11, 12, 13, 15 >>

\* C23 witness: an upload returned after 6, 8, 11, 12, 13, 15, region 8
\* having taken more than one packet.
C23_Witness ==
    /\ entry = "sync_out" /\ pc = "done" /\ outcome = Returned
    /\ RegionRuns(RegionWrites) = << 6, 8, 11, 12, 13, 15 >>
    /\ Len(RegionRequests(8)) > 1
    /\ Len(RegionRequests(7)) = 0

\* No call on the serial port raised and the radio answered every region
\* exchange regularly.
NothingWentWrong ==
    faults = 0 /\ \A i \in 1..Len(wire) : ~ wire[i].raised

\* C24: a region whose slice of the image is empty is a no-op success.  An
\* upload in which nothing went wrong returns, whether or not some writable
\* region has an empty slice, and it has written packets for exactly the
\* writable regions whose slice is not empty.
C24_EmptyRegionNoOp ==
    ( entry = "sync_out" /\ SessionLeft /\ handshake_result = Normal
      /\ NothingWentWrong )
    => /\ outcome = Returned
       /\ \A item \in WritableIds :
            ( RegionRequests(item) = << >> ) = ( RegionSlice(mmap, item) = << >> )

\* C25: the calls on the serial port alternate.  Every read comes directly
\* after a write that returned; every write that returned, other than that
\* of the exit packet, is directly followed by a read; the write of the exit
\* packet is the last call of the session; and handshake packets (phase 0),
\* region packets (1) and the exit packet (2) are written in that order.
C25_RequestResponse ==
    LET hs    == HandshakePacket
        ex    == ExitPacket
        phase == [i \in 1..Len(wire) |->
                    IF wire[i].data = hs THEN 0
                    ELSE IF wire[i].data = ex THEN 2
                    ELSE 1]
    IN  /\ \A i \in 1..Len(wire) :
             /\ wire[i].op = "read" =>
                  i > 1 /\ wire[i - 1].op = "write" /\ ~ wire[i - 1].raised
             /\ ( wire[i].op = "write" /\ ~ wire[i].raised /\ phase[i] # 2 )
                  => i < Len(wire) /\ wire[i + 1].op = "read"
             /\ ( wire[i].op = "write" /\ phase[i] = 2 ) => i = Len(wire)
        /\ \A i \in 1..Len(wire) : \A j \in i..Len(wire) :
             ( wire[i].op = "write" /\ wire[j].op = "write" ) =>
                 phase[i] <= phase[j]

\* C25 witness: a finished session of two handshake exchanges, more than two
\* region exchanges and the exit packet: two calls per exchange and one more.
C25_Witness ==
    /\ pc = "done"
    /\ HsSends = 2
    /\ Len(RegionWrites) > 2
    /\ Len(wire) = 2 * (HsSends + Len(RegionWrites)) + 1
    /\ wire[Len(wire)] = WriteEv(ExitPacket)

\* C26: validate_packet accepts every packet get_send_packet_bytes builds,
\* and every packet get_handshake_bytes builds for a model name of at most
\* 41 bytes.
C26_OwnPacketsValid ==
    upc = "validated" => ( vinput = uresult /\ vresult = TRUE )

\* C26 witness: the handshake packet for "HA1G ", 64 bytes declaring a length
\* of 47, was accepted.
C26_Witness ==
    /\ upc = "validated"
    /\ uargs = [ currentModel |-> MODEL \o << 32 >> ]
    /\ vinput = HandshakePacket
    /\ Len(vinput) = 64 /\ PySlice(vinput, 12, 14) = << 47, 0 >>
    /\ vresult = TRUE

\* C27: every packet do_download writes for a catalogue region has direction
\* code (byte 15) 2, and the only packet it writes with byte 15 = 0 is the
\* exit packet, whose region id 111 is no catalogue region.
C27_DownloadNeverWrites ==
    entry = "do_download" =>
        \A i \in 1..Len(Writes) :
            /\ Writes[i].data[15] \in RegionIds => Writes[i].data[16] = 2
            /\ Writes[i].data[16] = 0 =>
                 ( Writes[i].data = ClaimedExitPacket /\ 111 \notin RegionIds )

\* C27 as amended: every packet written for a catalogue region has direction
\* code 2; the packets with byte 15 = 0 are the handshake packets, whose
\* byte 14 is 0, and the exit packet, whose byte 14 is 111: neither is a
\* catalogue region.
C27_DownloadWritesNoRegion ==
    entry = "do_download" =>
        \A i \in 1..Len(Writes) :
            /\ Writes[i].data[15] \in RegionIds => Writes[i].data[16] = 2
            /\ Writes[i].data[16] = 0 =>
                 /\ Writes[i].data \in { HandshakePacket, ClaimedExitPacket }
                 /\ Writes[i].data[15] \in { 0, 111 }
                 /\ Writes[i].data[15] \notin RegionIds

\* C27 witness: a download that returned: requests for all ten regions, each
\* with direction code 2, between a handshake packet and the exit packet,
\* both with byte 15 = 0.
C27_Witness ==
    /\ entry = "do_download" /\ pc = "done" /\ outcome = Returned
    /\ RegionRuns(RegionWrites) = MemoryRegions
    /\ \A i \in 1..Len(RegionWrites) : RegionWrites[i].data[16] = 2
    /\ Writes[1].data = HandshakePacket /\ Writes[1].data[16] = 0
    /\ Writes[Len(Writes)].data = ClaimedExitPacket

\* The bounds of one session: at most 15 handshake exchanges; for a region
\* of a download, one exchange if its first answer was refused, otherwise at
\* most max(1, C) with C the count of its first answer; for a region of an
\* upload, at most ceil(L / S) exchanges.
ExchangesBounded ==
    /\ HsSends <= HandshakeAttempts
    /\ \A item \in RegionIds :
         LET n == Len(RegionRequests(item))
         IN  /\ entry = "do_download" =>
                  /\ region_first[item] = << >> => n <= 1
                  /\ region_first[item] # << >> =>
                       ( n <= Max(1, FirstCount(item)) /\ FirstCount(item) <= 65535 )
             /\ entry = "sync_out" =>
                  n <= Ceil(MEMORY_REGIONS_RANGES[item][2], write_page_len)

\* C28: every clone operation terminates when each serial call returns or
\* raises: the exchange counts stay within their bounds all along, the
\* session reaches the exit-programming-mode step, and then it ends.
C28_Terminates ==
    /\ [] ExchangesBounded
    /\ <> ( pc = "finally" )
    /\ <> ( pc = "done" )

\* C28 witness: an upload that ended after fifteen handshake exchanges, the
\* last one accepted, and ceil(L / S) pages for every writable region, with
\* the exit packet written last.
C28_Witness ==
    /\ entry = "sync_out" /\ pc = "done"
    /\ HsSends = HandshakeAttempts /\ handshake_result = Normal
    /\ \A item \in WritableIds :
         /\ UploadDone(item)
         /\ Len(RegionRequests(item))
              = Ceil(MEMORY_REGIONS_RANGES[item][2], write_page_len)
    /\ IsExitWrite(wire[Len(wire)])

\* Last bytes to try in place of the one an input has.
LastBytes == { 0, 1, 127, 254, 255 }

\* Preambles to try in place of the first twelve bytes of an input.
Preambles == { Magic, Zeros(12), [i \in 1..12 |-> 255] }

\* p with its first twelve bytes replaced by m, its checksum bytes computed
\* again over the new body, and its last byte kept.
WithPreamble(p, m) ==
    LET body == m \o PySlice(p, 12, -3)
    IN  body \o calculate_crc16(body) \o PyFrom(p, Len(p) - 1)

\* C29: for an input of at least 17 bytes the verdict of validate_packet is
\* the same whatever the last byte is, and, once the checksum bytes match the
\* body, the same whatever the first twelve bytes are: it is the test of the
\* declared length together with the comparison of the checksum.
C29_SentinelMagicIgnored ==
    ( vpc = "done" /\ Len(vinput) >= 17 ) =>
        /\ \A b \in LastBytes :
             validate_packet(WithLastByte(vinput, b)) = vresult
        /\ \A m \in Preambles :
             validate_packet(WithPreamble(vinput, m))
               = ( DeclaredMin(vinput) <= Len(vinput) - 17 )
        /\ vresult = ( /\ DeclaredMin(vinput) <= Len(vinput) - 17
                       /\ PySlice(vinput, -3, -1)
                            = calculate_crc16(PySlice(vinput, 0, -3)) )

\* C29 witness: an 18-byte packet with the magic, a declared length of 7, one
\* payload byte and its checksum, whose last byte is 0 instead of 0xFF, was
\* accepted.
C29_Witness ==
    /\ vpc = "done"
    /\ vinput = WithLastByte(Checksummed(DeclaredBody(18)), 0)
    /\ PySlice(vinput, 0, 14) = Magic \o << 7, 0 >>
    /\ vinput[Len(vinput)] # Sentinel
    /\ vresult = TRUE

\* C30: after remove_memory_from_mapping returned without error, the memory
\* is no longer among the channels _channel_numbers_in_bank reports for the
\* bank; and the bank never holds more than 16 channels.
C30_RemovalTakesEffect ==
    /\ ( bank_call.op = "remove" /\ bank_call.raised = "none" ) =>
           bank_call.number \notin channel_numbers_in_bank(zone)
    /\ Cardinality(channel_numbers_in_bank(zone)) <= 16

====
